---------------------------- MODULE Spec2Model ----------------------------
(***************************************************************************)
(* Private-markets knowledge store: source intelligence, relationship      *)
(* inference, query engine and agent orchestration.                        *)
(*                                                                         *)
(* Numbers.  The program computes with IEEE doubles in [0,1]; the model    *)
(* uses integers in thousandths (0.65 is 650, 0.98 is 980).  Products of   *)
(* two scores are divided back by 1000 or by the power of two of the       *)
(* decay, rounding toward zero.  Elapsed time since the registration of a  *)
(* source type is counted in whole half-lives (30 days), for which the     *)
(* decay 0.5^(days/30) is the exact fraction 1 / 2^h.                      *)
(***************************************************************************)
EXTENDS Integers, Sequences, FiniteSets, TLC

VARIABLES
    recentPerformance,  \* sourceRegistry[t].recentPerformance, per source type
    now,                \* half-lives elapsed since the registry was built
    lastAuthority,      \* last value returned by getSourceAuthority (or "none")
    recorded,           \* per source type, every outcome updateSourcePerformance recorded
    evidence,           \* what the graph holds matching rows for
    rels,               \* relationship records of the graph store (a sequence)
    run,                \* the inference call in progress and its counters
    produced,           \* the candidate the inference loop processed last
    nluOutput,          \* the last output of the understanding stage called directly
    config,             \* the agent's configuration: executor and analytics switch
    turn,               \* the processQuery call in progress
    validationCache,    \* SourceIntelligence.validationCache: validation key -> validation
    validationLog,      \* the crossValidateInformation calls made and what they returned
    conversations,      \* ConversationManager.conversations: id -> conversation
    clock,              \* the time, in minutes
    nextSweep,          \* the time the cleanup timer is due next
    calls,              \* the processQuery calls in flight on the conversation manager
    added,              \* per conversation, the messages addTurn was called with
    writers,            \* the createInferredRelationship calls of concurrent inference runs
    stats               \* PrivateMarketsAgent.stats: totalQueries and successfulQueries

siVars == <<recentPerformance, now, lastAuthority, recorded>>
inferVars == <<evidence, rels, run, produced>>
nluVars == <<nluOutput>>
agentVars == <<config, turn, stats>>
cvVars == <<validationCache, validationLog>>
convVars == <<conversations, clock, nextSweep, calls, added>>
writeVars == <<writers>>
vars == <<siVars, inferVars, nluVars, agentVars, cvVars, convVars, writeVars>>

Min(a, b) == IF a <= b THEN a ELSE b
Max(a, b) == IF a >= b THEN a ELSE b

RECURSIVE SumSeq(_)
SumSeq(s) == IF s = <<>> THEN 0 ELSE Head(s) + SumSeq(Tail(s))

RECURSIVE Pow2(_)
Pow2(n) == IF n = 0 THEN 1 ELSE 2 * Pow2(n - 1)

(***************************************************************************)
(* Bounds of the model.                                                    *)
(***************************************************************************)
MaxHalfLives == 1   \* the clock stops after this many half-lives
MaxOutcomes == 2    \* outcomes recorded for a source type in one behaviour
MaxCand == 1        \* rows a pattern query returns
MaxCount == 4       \* largest overlap / follow / collaboration count of a row
MaxEvidence == 1    \* patterns the graph holds matching rows for
MaxPhrases == 3     \* phrases of a message
MaxRows == 1        \* rows the store returns for a named query
MaxSources == 3     \* sources of one cross-validation
MaxValidations == 2 \* cross-validations in one behaviour
MaxTicks == 5       \* cleanup intervals the clock runs for
MaxCalls == 2       \* processQuery calls on the conversation manager
MaxTurns == 12      \* addTurn calls made directly in one behaviour
MaxRecorded == 12   \* outcomes recorded for the one source type observed beyond its window

(***************************************************************************)
(* Source Intelligence                                                     *)
(***************************************************************************)
RegisteredTypes ==
    {"SEC_FILINGS", "COMPANY_ANNOUNCEMENTS", "FUND_REPORTS",
     "INDUSTRY_DATABASES", "EXPERT_ANALYSIS", "FINANCIAL_MEDIA",
     "NEWS_REPORTS", "MARKET_RUMORS", "AI_INFERENCE"}

\* A type name that registerSourceType was never called with.
UnknownType == "BLOG_POST"

SourceTypeInputs == RegisteredTypes \cup {UnknownType}

baseAuthority(t) ==
    CASE t = "SEC_FILINGS" -> 950
      [] t = "COMPANY_ANNOUNCEMENTS" -> 900
      [] t = "FUND_REPORTS" -> 880
      [] t = "INDUSTRY_DATABASES" -> 800
      [] t = "EXPERT_ANALYSIS" -> 750
      [] t = "FINANCIAL_MEDIA" -> 700
      [] t = "NEWS_REPORTS" -> 600
      [] t = "MARKET_RUMORS" -> 300
      [] t = "AI_INFERENCE" -> 650

category(t) ==
    CASE t = "SEC_FILINGS" -> "regulatory"
      [] t = "COMPANY_ANNOUNCEMENTS" -> "official"
      [] t = "FUND_REPORTS" -> "official"
      [] t = "INDUSTRY_DATABASES" -> "industry"
      [] t = "EXPERT_ANALYSIS" -> "analysis"
      [] t = "FINANCIAL_MEDIA" -> "media"
      [] t = "NEWS_REPORTS" -> "news"
      [] t = "MARKET_RUMORS" -> "rumor"
      [] t = "AI_INFERENCE" -> "generated"

verificationRequired(t) ==
    t \notin {"SEC_FILINGS", "COMPANY_ANNOUNCEMENTS", "FUND_REPORTS"}

\* registerSourceType: every entry starts with an empty performance window.
initialRegistry == [t \in RegisteredTypes |-> <<>>]

PerformanceWindow == 10
DefaultAuthority == 500
AuthorityFloor == 100
AuthorityCeiling == 980

\* calculateTimeDecay applied to a score: score * 0.5^(h half-lives).
calculateTimeDecay(score, h) == score \div Pow2(h)

\* Math.min(Math.max(authority, 0.1), 0.98)
ClampDropped(a) == a

clampAuthority(a) == Min(Max(a, AuthorityFloor), AuthorityCeiling)


\* 70% base authority, 30% mean of the recorded outcomes, when there are any.
blendPerformance(base, perf) ==
    IF Len(perf) > 0
    THEN (7 * base * Len(perf) + 3 * SumSeq(perf)) \div (10 * Len(perf))
    ELSE base

authorityAt(registry, t, h) ==
    IF t \notin RegisteredTypes
    THEN DefaultAuthority
    ELSE LET blended == blendPerformance(baseAuthority(t), registry[t])
             decayed == IF category(t) \notin {"official", "regulatory"}
                        THEN calculateTimeDecay(blended, h)
                        ELSE blended
         IN clampAuthority(decayed)

getSourceAuthority(t) == authorityAt(recentPerformance, t, now)

\* The outcome updateSourcePerformance records: the accuracy when one is
\* given, else 1.0 for a success and 0.0 for a failure.
performanceScore(validationSuccess, actualAccuracy) ==
    IF actualAccuracy.given THEN actualAccuracy.value
    ELSE IF validationSuccess THEN 1000 ELSE 0

\* pushPerformance that drops the outcome that arrives when the window is full.
pushDroppingNewest(perf, score) ==
    IF Len(perf) >= PerformanceWindow THEN perf ELSE Append(perf, score)

\* recentPerformance.push(performanceScore), and shift() when there are more
\* than 10.
pushPerformance(perf, score) ==
    LET pushed == Append(perf, score)
    IN IF Len(pushed) > PerformanceWindow THEN Tail(pushed) ELSE pushed

\* Accuracies a caller may report, in and out of [0,1]; the first is the
\* parameter's default, null.
NoAccuracy == [given |-> FALSE, value |-> 0]

Accuracies ==
    {NoAccuracy} \cup
    {[given |-> TRUE, value |-> v] : v \in {2000, -1000}}

\* updateSourcePerformance(sourceType, validationSuccess, actualAccuracy):
\* an unknown type returns at once.  validationCount and successRate are
\* written too; nothing but the statistics report reads them.
updateSourcePerformance(registry, t, validationSuccess, actualAccuracy) ==
    IF t \notin RegisteredTypes
    THEN registry
    ELSE [registry EXCEPT ![t] =
            pushPerformance(@, performanceScore(validationSuccess, actualAccuracy))]

(***************************************************************************)
(* Relationship Inference Engine                                           *)
(***************************************************************************)
Entities == {"fundA", "fundB"}

Patterns ==
    <<"CO_INVESTMENT", "GEOGRAPHIC_CLUSTERING", "SECTOR_ALIGNMENT",
      "FOLLOW_ON_INVESTMENT", "PEOPLE_NETWORK", "CORPORATE_STRUCTURE",
      "DEAL_COLLABORATION">>

minConfidence(p) ==
    CASE p = "CO_INVESTMENT" -> 700
      [] p = "GEOGRAPHIC_CLUSTERING" -> 600
      [] p = "SECTOR_ALIGNMENT" -> 650
      [] p = "FOLLOW_ON_INVESTMENT" -> 800
      [] p = "PEOPLE_NETWORK" -> 850
      [] p = "CORPORATE_STRUCTURE" -> 900
      [] p = "DEAL_COLLABORATION" -> 750

mapPatternToRelationshipType(p) ==
    CASE p = "CO_INVESTMENT" -> "CO_INVESTED"
      [] p = "GEOGRAPHIC_CLUSTERING" -> "OPERATES_IN_SAME_REGION"
      [] p = "SECTOR_ALIGNMENT" -> "FOCUSES_ON_SAME_SECTOR"
      [] p = "FOLLOW_ON_INVESTMENT" -> "FOLLOWS_INVESTMENT_PATTERN"
      [] p = "PEOPLE_NETWORK" -> "SHARES_PERSONNEL"
      [] p = "CORPORATE_STRUCTURE" -> "AFFILIATED_WITH"
      [] p = "DEAL_COLLABORATION" -> "COLLABORATES_ON_DEALS"
      [] OTHER -> "INFERRED_RELATIONSHIP"

\* The pattern-specific confidence of the switch in processRelationshipCandidate
\* for a row whose count column (overlap_count, follow_count, the length of
\* shared_people, collaboration_count) is n.
patternConfidence(p, n) ==
    CASE p = "CO_INVESTMENT" -> Min(950, 500 + n * 100)
      [] p = "GEOGRAPHIC_CLUSTERING" -> 600
      [] p = "SECTOR_ALIGNMENT" -> 650
      [] p = "FOLLOW_ON_INVESTMENT" -> Min(900, 600 + n * 50)
      [] p = "PEOPLE_NETWORK" -> Min(950, 700 + n * 50)
      [] p = "CORPORATE_STRUCTURE" -> 800
      [] p = "DEAL_COLLABORATION" -> Min(900, 500 + n * 80)
      [] OTHER -> minConfidence(p)

\* Patterns whose query returns a count column.
Counted ==
    {"CO_INVESTMENT", "FOLLOW_ON_INVESTMENT", "PEOPLE_NETWORK", "DEAL_COLLABORATION"}

\* The rows a pattern query can return: two distinct entities and the count,
\* which is at least 1 since a row is a match.
PatternRows(p) ==
    {r \in [entity1 : Entities, entity2 : Entities,
            count : IF p \in Counted THEN 1..MaxCount ELSE {0}] :
        r.entity1 /= r.entity2}

\* The rows of the similarity query: two distinct entities and three 0/1
\* indicators, at least one of them 1 (the WHERE clause of the query).
SimilarityRows ==
    {r \in [entity1 : Entities, entity2 : Entities, country_match : 0..1,
            sector_match : 0..1, name_similarity : 0..1] :
        /\ r.entity1 /= r.entity2
        /\ r.country_match + r.sector_match + r.name_similarity >= 1}

RelationshipCeiling == 950

\* createWeightedRelationship: the confidence is the mean authority of the
\* sources' types, capped at 0.95; each source's data is kept as evidence.
\* sourceTypes is the sequence of the sources' types, data their payload.
WeightedConfidence(sourceTypes) ==
    LET authorities == [i \in DOMAIN sourceTypes |-> getSourceAuthority(sourceTypes[i])]
    IN Min(SumSeq(authorities) \div Len(sourceTypes), RelationshipCeiling)

createWeightedRelationship(from, to, type, sourceTypes, data) ==
    [from |-> from, to |-> to, type |-> type,
     confidence |-> WeightedConfidence(sourceTypes),
     evidence |-> data]

\* processRelationshipCandidate: one AI_INFERENCE source carrying the
\* pattern-specific confidence in its data.
processRelationshipCandidate(row, p) ==
    createWeightedRelationship(row.entity1, row.entity2,
        mapPatternToRelationshipType(p), <<"AI_INFERENCE">>,
        patternConfidence(p, row.count))

\* MATCH (from {id: $fromId})-[r]-(to {id: $toId}) WHERE type(r) = $type:
\* the pattern has no direction, so it matches records of either direction.
existingMatches(store, rel) ==
    {i \in DOMAIN store :
        /\ store[i].type = rel.type
        /\ \/ (store[i].from = rel.from /\ store[i].to = rel.to)
           \/ (store[i].from = rel.to /\ store[i].to = rel.from)}

\* updateRelationshipConfidence as a deletion of the matching records and a
\* creation of the relationship anew.
updateByDeleteAndCreate(store, rel) ==
    Append(SelectSeq(store,
                     LAMBDA r : ~(/\ r.type = rel.type
                                  /\ \/ (r.from = rel.from /\ r.to = rel.to)
                                     \/ (r.from = rel.to /\ r.to = rel.from))),
           [from |-> rel.from, to |-> rel.to, type |-> rel.type,
            confidence |-> rel.confidence])

\* updateRelationshipConfidence: SET on every record the same pattern matches.
updateRelationshipConfidence(store, rel) ==
    [i \in DOMAIN store |->
        IF i \in existingMatches(store, rel)
        THEN [store[i] EXCEPT !.confidence = rel.confidence]
        ELSE store[i]]

\* The record of a relationship in the store.  Its sources and metadata are
\* stored as JSON text that no operation reads back.
stored(rel) ==
    [from |-> rel.from, to |-> rel.to, type |-> rel.type, confidence |-> rel.confidence]

\* GraphDatabase.createRelationship: MERGE of the directed relationship; on a
\* match the larger confidence is kept and then SET r += $properties writes the
\* properties, the confidence among them.
mergeMatches(store, rel) ==
    {i \in DOMAIN store :
        store[i].type = rel.type /\ store[i].from = rel.from /\ store[i].to = rel.to}

createRelationship(store, rel) ==
    IF mergeMatches(store, rel) /= {}
    THEN [i \in DOMAIN store |->
            IF i \in mergeMatches(store, rel)
            THEN [store[i] EXCEPT !.confidence = rel.confidence]
            ELSE store[i]]
    ELSE Append(store, stored(rel))

AlwaysOverwrite(store, rel) ==
    IF existingMatches(store, rel) /= {}
    THEN {updateRelationshipConfidence(store, rel)}
    ELSE {createRelationship(store, rel)}

AlwaysCreate(store, rel) == {Append(store, stored(rel))}

\* createInferredRelationship: the stores that can result.  existing.records[0]
\* is any one of the matching records (the query does not order them).
createInferredRelationship(store, rel) ==
    IF existingMatches(store, rel) /= {}
    THEN {IF rel.confidence > store[i].confidence
          THEN updateRelationshipConfidence(store, rel)
          ELSE store : i \in existingMatches(store, rel)}
    ELSE {createRelationship(store, rel)}

\* Two inference runs at work at once, each in its createInferredRelationship
\* for a candidate of a pattern.  pc: idle, checked (the query for an existing
\* relationship has returned), written.  found and existingConfidence are
\* what that query returned.
WriterIds == 1..2

IdleWriter ==
    [pc |-> "idle", from |-> "none", to |-> "none", type |-> "none", confidence |-> 0,
     found |-> FALSE, existingConfidence |-> 0]

NoWriters == [w \in WriterIds |-> IdleWriter]

\* createInferredRelationship after the query for an existing relationship
\* has returned: the update when a record was found and has a smaller
\* confidence, nothing when it has not, else createRelationship.
writeAfterCheck(store, w) ==
    IF w.found
    THEN IF w.confidence > w.existingConfidence
         THEN updateRelationshipConfidence(store, w)
         ELSE store
    ELSE createRelationship(store, w)

\* The inference call in progress.  pc: idle, query (a pattern query is due),
\* candidates (rows of the pattern are being processed), similarity (the
\* similarity query is due), similar (its rows are being processed), stubs
\* (the temporal and network passes), returned, threw.  remaining counts the
\* rows of the current query still to process.  The pattern result is
\* candidates/successful/failed, the Summary is the three ...Inferences.
IdleRun ==
    [pc |-> "idle", mode |-> "none", idx |-> 0, remaining |-> 0,
     candidates |-> 0, successful |-> 0, failed |-> 0,
     totalInferences |-> 0, successfulInferences |-> 0, failedInferences |-> 0]

\* produced, while no candidate has been processed: otherwise the row's
\* pattern, entities and count, the confidence of the relationship that
\* processRelationshipCandidate returned, whether the loop persisted it, and
\* whether the store threw while doing so.
NoCandidate ==
    [pattern |-> "none", from |-> "none", to |-> "none", count |-> 0,
     confidence |-> 0, persisted |-> FALSE, threw |-> FALSE]

\* No inference call is in progress.  The result of a finished call stays in
\* run until the next operation on the engine or the registry.
Quiescent == run.pc \in {"idle", "returned", "threw"}

NoAuthority == [type |-> "none", value |-> 0]

\* Outcomes are recorded for one source type per behaviour, and at most
\* MaxOutcomes of them: the entries of the registry are independent.
OthersUntouched(t) ==
    \A u \in RegisteredTypes \ {t} : recentPerformance[u] = <<>>

UpdateSourcePerformance ==
    \E t \in SourceTypeInputs, ok \in BOOLEAN, acc \in Accuracies :
        /\ Quiescent
        /\ OthersUntouched(t)
        /\ t \in RegisteredTypes => Len(recentPerformance[t]) < MaxOutcomes
        /\ recentPerformance' = updateSourcePerformance(recentPerformance, t, ok, acc)
        /\ recorded' = IF t \in RegisteredTypes
                       THEN [recorded EXCEPT ![t] = Append(@, performanceScore(ok, acc))]
                       ELSE recorded
        /\ lastAuthority' = NoAuthority
        /\ UNCHANGED <<now, inferVars, nluVars, agentVars, cvVars, convVars, writeVars>>

\* updateSourcePerformance(sourceType, validationSuccess) over and over for
\* one source type, beyond the length of its window.
ObservedType == "INDUSTRY_DATABASES"

UpdateObservedSource ==
    \E ok \in BOOLEAN :
        /\ Len(recorded[ObservedType]) < MaxRecorded
        /\ recentPerformance' =
               updateSourcePerformance(recentPerformance, ObservedType, ok, NoAccuracy)
        /\ recorded' = [recorded EXCEPT ![ObservedType] =
                            Append(@, performanceScore(ok, NoAccuracy))]
        /\ lastAuthority' = NoAuthority
        /\ UNCHANGED <<now, inferVars, nluVars, agentVars, cvVars, convVars, writeVars>>

\* Time passes: one more half-life since registerSourceType.
Tick ==
    /\ Quiescent
    /\ now < MaxHalfLives
    /\ now' = now + 1
    /\ lastAuthority' = NoAuthority
    /\ run' = IdleRun
    /\ produced' = NoCandidate
    /\ UNCHANGED <<recentPerformance, recorded, evidence, rels, nluVars, agentVars, cvVars,
                   convVars, writeVars>>

GetSourceAuthority ==
    \E t \in SourceTypeInputs :
        /\ Quiescent
        /\ lastAuthority' = [type |-> t, value |-> getSourceAuthority(t)]
        /\ UNCHANGED <<recentPerformance, recorded, now, inferVars, nluVars, agentVars, cvVars,
                       convVars, writeVars>>

\* inferAllRelationships(options): a fresh Summary, then the patterns in order.
InferAllRelationships ==
    /\ Quiescent
    /\ run' = [IdleRun EXCEPT !.pc = "query", !.mode = "all", !.idx = 1]
    /\ produced' = NoCandidate
    /\ UNCHANGED <<siVars, evidence, rels, nluVars, agentVars, cvVars, convVars, writeVars>>

\* inferRelationshipsByPattern(patternName, options) called on its own.
InferRelationshipsByPattern ==
    \E i \in DOMAIN Patterns :
        /\ Quiescent
        /\ run' = [IdleRun EXCEPT !.pc = "query", !.mode = "single", !.idx = i]
        /\ produced' = NoCandidate
        /\ UNCHANGED <<siVars, evidence, rels, nluVars, agentVars, cvVars, convVars, writeVars>>

\* The pattern query failed: inferRelationshipsByPattern logs and rethrows, and
\* so does the catch of inferAllRelationships.
PatternQueryThrows ==
    /\ run.pc = "query"
    /\ run' = [run EXCEPT !.pc = "threw"]
    /\ UNCHANGED <<siVars, evidence, rels, produced, nluVars, agentVars, cvVars, convVars, writeVars>>

\* The pattern query returned n rows: results.candidates = queryResult.records.
\* A pattern the graph has no evidence for returns none.
PatternQueryReturns ==
    /\ run.pc = "query"
    /\ \E n \in IF Patterns[run.idx] \in evidence THEN 1..MaxCand ELSE {0} :
        run' = [run EXCEPT !.pc = "candidates", !.remaining = n,
                           !.candidates = n, !.successful = 0, !.failed = 0]
    /\ UNCHANGED <<siVars, evidence, rels, produced, nluVars, agentVars, cvVars, convVars, writeVars>>

\* One turn of the loop over the rows: the next row is any row the query of
\* the pattern can return.  storeFails: the graph store throws inside
\* createInferredRelationship, which the inner catch counts as failed.
ProcessCandidate ==
    /\ run.pc = "candidates"
    /\ run.remaining > 0
    /\ \E row \in PatternRows(Patterns[run.idx]), storeFails \in BOOLEAN :
        LET p == Patterns[run.idx]
            relationship == processRelationshipCandidate(row, p)
            passes == relationship.confidence >= minConfidence(p)
        IN /\ storeFails => passes
           /\ IF passes /\ ~storeFails
              THEN /\ rels' \in createInferredRelationship(rels, relationship)
                   /\ run' = [run EXCEPT !.remaining = @ - 1, !.successful = @ + 1]
              ELSE /\ rels' = rels
                   /\ run' = [run EXCEPT !.remaining = @ - 1, !.failed = @ + 1]
           /\ produced' = [pattern |-> p, from |-> row.entity1, to |-> row.entity2,
                           count |-> row.count,
                           confidence |-> relationship.confidence,
                           persisted |-> passes /\ ~storeFails,
                           threw |-> storeFails]
    /\ UNCHANGED <<siVars, evidence, nluVars, agentVars, cvVars, convVars, writeVars>>

\* inferRelationshipsByPattern returns its result; inferAllRelationships adds
\* it to the Summary and goes on to the next pattern, or to the similarity pass.
PatternReturns ==
    /\ run.pc = "candidates"
    /\ run.remaining = 0
    /\ run' =
        IF run.mode = "single"
        THEN [run EXCEPT !.pc = "returned"]
        ELSE [run EXCEPT
                !.totalInferences = @ + run.candidates,
                !.successfulInferences = @ + run.successful,
                !.failedInferences = @ + run.failed,
                !.idx = IF run.idx < Len(Patterns) THEN run.idx + 1 ELSE run.idx,
                !.pc = IF run.idx < Len(Patterns) THEN "query" ELSE "similarity",
                !.candidates = 0, !.successful = 0, !.failed = 0]
    /\ produced' = NoCandidate
    /\ UNCHANGED <<siVars, evidence, rels, nluVars, agentVars, cvVars, convVars, writeVars>>

\* inferByEntitySimilarity: its query failed; the error is logged and dropped.
SimilarityQueryThrows ==
    /\ run.pc = "similarity"
    /\ run' = [run EXCEPT !.pc = "stubs"]
    /\ UNCHANGED <<siVars, evidence, rels, produced, nluVars, agentVars, cvVars, convVars, writeVars>>

SimilarityQueryReturns ==
    /\ run.pc = "similarity"
    /\ \E n \in IF "SIMILARITY" \in evidence THEN 1..MaxCand ELSE {0} :
        run' = [run EXCEPT !.pc = "similar", !.remaining = n, !.successful = 0]
    /\ UNCHANGED <<siVars, evidence, rels, produced, nluVars, agentVars, cvVars, convVars, writeVars>>

similarity_score(row) ==
    ((row.country_match + row.sector_match + row.name_similarity) * 1000) \div 3

SimilarityThreshold == 500

\* One turn of the similarity loop; run.successful is similarityInferences.
\* A throw of the store leaves the loop through the catch of the method, so
\* the lines after the loop, which add to the Summary, are skipped.
ProcessSimilar ==
    /\ run.pc = "similar"
    /\ run.remaining > 0
    /\ \E row \in SimilarityRows, storeFails \in BOOLEAN :
        LET relationship ==
                createWeightedRelationship(row.entity1, row.entity2, "SIMILAR_TO",
                                           <<"AI_INFERENCE">>, similarity_score(row))
            passes == /\ similarity_score(row) >= SimilarityThreshold
                      /\ relationship.confidence >= SimilarityThreshold
        IN /\ storeFails => passes
           /\ IF passes
              THEN IF storeFails
                   THEN /\ rels' = rels
                        /\ run' = [run EXCEPT !.pc = "stubs", !.remaining = 0,
                                              !.successful = 0]
                   ELSE /\ rels' \in createInferredRelationship(rels, relationship)
                        /\ run' = [run EXCEPT !.remaining = @ - 1, !.successful = @ + 1]
              ELSE /\ rels' = rels
                   /\ run' = [run EXCEPT !.remaining = @ - 1]
    /\ UNCHANGED <<siVars, evidence, produced, nluVars, agentVars, cvVars, convVars, writeVars>>

SimilarityDone ==
    /\ run.pc = "similar"
    /\ run.remaining = 0
    /\ run' = [run EXCEPT !.pc = "stubs",
                          !.successfulInferences = @ + run.successful,
                          !.successful = 0]
    /\ UNCHANGED <<siVars, evidence, rels, produced, nluVars, agentVars, cvVars, convVars, writeVars>>

\* inferByTemporalPatterns and inferByNetworkAnalysis record zero counts; the
\* Summary is returned.
InferAllReturns ==
    /\ run.pc = "stubs"
    /\ run' = [run EXCEPT !.pc = "returned"]
    /\ UNCHANGED <<siVars, evidence, rels, produced, nluVars, agentVars, cvVars, convVars, writeVars>>

\* A run has a candidate that passes minConfidence and enters
\* createInferredRelationship: the query for an existing relationship is
\* answered from the store as it is now.
CheckExisting(w) ==
    \E i \in DOMAIN Patterns : \E row \in PatternRows(Patterns[i]) :
        LET relationship == processRelationshipCandidate(row, Patterns[i])
            matches == existingMatches(rels, relationship)
        IN /\ writers[w].pc = "idle"
           /\ relationship.confidence >= minConfidence(Patterns[i])
           /\ \E existingRel \in IF matches = {} THEN {0} ELSE matches :
                 writers' = [writers EXCEPT ![w] =
                    [pc |-> "checked", from |-> relationship.from,
                     to |-> relationship.to, type |-> relationship.type,
                     confidence |-> relationship.confidence,
                     found |-> matches /= {},
                     existingConfidence |->
                        IF matches = {} THEN 0 ELSE rels[existingRel].confidence]]
           /\ UNCHANGED <<siVars, inferVars, nluVars, agentVars, cvVars, convVars>>

\* The rest of createInferredRelationship of the run.
WriteRelationship(w) ==
    /\ writers[w].pc = "checked"
    /\ rels' = writeAfterCheck(rels, writers[w])
    /\ writers' = [writers EXCEPT ![w].pc = "written"]
    /\ UNCHANGED <<siVars, evidence, run, produced, nluVars, agentVars, cvVars, convVars>>

\* Outcomes of the inference source: the only registry entry the engine reads.
RecordInferenceOutcome ==
    \E ok \in BOOLEAN :
        /\ Quiescent
        /\ Len(recentPerformance["AI_INFERENCE"]) < MaxOutcomes
        /\ recentPerformance' =
               updateSourcePerformance(recentPerformance, "AI_INFERENCE", ok, NoAccuracy)
        /\ recorded' = [recorded EXCEPT !["AI_INFERENCE"] =
                            Append(@, performanceScore(ok, NoAccuracy))]
        /\ run' = IdleRun
        /\ produced' = NoCandidate
        /\ UNCHANGED <<now, lastAuthority, evidence, rels, nluVars, agentVars, cvVars, convVars, writeVars>>

(***************************************************************************)
(* Natural-language understanding                                          *)
(*                                                                         *)
(* A message is a set of phrases of a small vocabulary, written one after  *)
(* the other and separated by commas, so that no regular expression of the *)
(* tables matches across two phrases.  The empty set stands for the empty  *)
(* and the whitespace-only string.  For each phrase the tables below list  *)
(* the regular expressions of the program that match it and the keywords   *)
(* it contains.  Scores of this stage are kept in units of 1/16000, in     *)
(* which k/16, s/10 and their weighted sums are whole numbers.             *)
(***************************************************************************)
One == 16 * 1000

Tenths(n) == n * (One \div 10)

Phrases ==
    {"tell me about", "Blackstone", "Blackstone Group", "partner John Smith", "market trends",
     "fintech", "Europe", "network", "forecast", "IRR", "hello", "discover", "$2B",
     "2 billion"}

Messages == {m \in SUBSET Phrases : Cardinality(m) <= MaxPhrases}

\* IntentClassifier.intentPatterns, in the order of definition.
IntentTable ==
    <<"query.entity.info", "query.relationship.explore", "query.portfolio.analyze",
      "analyze.performance", "analyze.market.trends", "analyze.risk.assessment",
      "compare.entities", "benchmark.performance", "predict.outcomes",
      "recommend.investments", "discover.opportunities", "explore.networks">>

IntentNames == {IntentTable[i] : i \in DOMAIN IntentTable}

\* <<intent, k>>: the k-th regular expression of the intent matches the phrase.
patternHits(phrase) ==
    CASE phrase = "tell me about" -> {<<"query.entity.info", 1>>}
      [] phrase = "market trends" -> {<<"analyze.market.trends", 1>>}
      [] phrase = "network" ->
            {<<"query.relationship.explore", 1>>, <<"explore.networks", 1>>}
      [] phrase = "forecast" -> {<<"predict.outcomes", 1>>}
      [] phrase = "IRR" -> {<<"analyze.performance", 1>>}
      [] phrase = "discover" -> {<<"discover.opportunities", 1>>}
      [] OTHER -> {}

\* <<intent, keyword>>: the lower-cased phrase contains the keyword of the
\* intent as the table writes it.  The lower-cased "IRR" does not contain the
\* keyword 'IRR' of analyze.performance.
keywordHits(phrase) ==
    CASE phrase = "tell me about" -> {<<"query.entity.info", "about">>}
      [] phrase = "market trends" ->
            {<<"analyze.market.trends", "trends">>, <<"analyze.market.trends", "market">>}
      [] phrase = "network" ->
            {<<"query.relationship.explore", "network">>, <<"explore.networks", "network">>}
      [] phrase = "forecast" -> {<<"predict.outcomes", "forecast">>}
      [] phrase = "discover" -> {<<"discover.opportunities", "discover">>}
      [] OTHER -> {}

\* EntityExtractor.entityPatterns: the categories in the order of definition
\* and the number of regular expressions of each.
Categories ==
    <<"companies", "people", "amounts", "timeframes", "sectors", "geographies", "metrics">>

CategoryNames == {Categories[i] : i \in DOMAIN Categories}

patternsOf(c) ==
    CASE c = "companies" -> 4
      [] c = "people" -> 2
      [] c = "amounts" -> 2
      [] c = "timeframes" -> 3
      [] c = "sectors" -> 1
      [] c = "geographies" -> 1
      [] c = "metrics" -> 3

\* The k-th regular expression of the category matches the phrase and captures
\* text: the text of the entity is (match[1] || match[0]).trim(), the first
\* group of the expression, which for an amount is the digits without the
\* dollar sign and without the suffix or the word of the magnitude.
entityHits(phrase) ==
    CASE phrase = "Blackstone" ->
            {[category |-> "companies", pattern |-> 3, text |-> "Blackstone"]}
      [] phrase = "Blackstone Group" ->
            {[category |-> "companies", pattern |-> 1, text |-> "Blackstone"],
             [category |-> "companies", pattern |-> 3, text |-> "Blackstone"],
             [category |-> "companies", pattern |-> 4, text |-> "Blackstone Group"]}
      [] phrase = "partner John Smith" ->
            {[category |-> "people", pattern |-> 2, text |-> "John Smith"]}
      [] phrase = "fintech" ->
            {[category |-> "sectors", pattern |-> 1, text |-> "fintech"]}
      [] phrase = "Europe" ->
            {[category |-> "geographies", pattern |-> 1, text |-> "Europe"]}
      [] phrase = "IRR" ->
            {[category |-> "metrics", pattern |-> 1, text |-> "IRR"]}
      [] phrase = "$2B" ->
            {[category |-> "amounts", pattern |-> 1, text |-> "2"]}
      [] phrase = "2 billion" ->
            {[category |-> "amounts", pattern |-> 2, text |-> "2"]}
      [] OTHER -> {}

\* The context argument of the understanding stage: null, or an object that
\* may carry recentIntents and messageHistory.
NoContext == [given |-> FALSE, recentIntents |-> {}, messageHistory |-> FALSE]

ContextIntents == {"analyze.performance", "query.entity.info", "query.general"}

Contexts ==
    {NoContext} \cup
    {[given |-> TRUE, recentIntents |-> r, messageHistory |-> h] :
        r \in {{}} \cup {{i} : i \in ContextIntents}, h \in BOOLEAN}

\* The score of one intent: 3 per matching regular expression, 1 per contained
\* keyword, 1 if the context lists the intent among its recent ones.
contextBoost(intent, context) ==
    IF context.given /\ intent \in context.recentIntents THEN 1 ELSE 0

score(intent, message, context) ==
    3 * Cardinality({h \in UNION {patternHits(p) : p \in message} : h[1] = intent})
    + Cardinality({h \in UNION {keywordHits(p) : p \in message} : h[1] = intent})
    + contextBoost(intent, context)

\* Object.entries(scores).sort(([,a],[,b]) => b - a): by score, highest first,
\* intents of equal score in the order of the table (the sort is stable).
RECURSIVE sortedIntents(_, _, _)
sortedIntents(S, message, context) ==
    IF S = {} THEN <<>>
    ELSE LET best == CHOOSE i \in S :
                        \A j \in S :
                            \/ score(IntentTable[i], message, context)
                                   > score(IntentTable[j], message, context)
                            \/ /\ score(IntentTable[i], message, context)
                                      = score(IntentTable[j], message, context)
                               /\ i <= j
         IN <<[intent |-> IntentTable[best],
               confidence |-> Min(Tenths(score(IntentTable[best], message, context)), One)]>>
            \o sortedIntents(S \ {best}, message, context)

FallbackAtHalf == [intent |-> "query.general", confidence |-> Tenths(5)]

fallbackIntent == [intent |-> "query.general", confidence |-> Tenths(3)]

classify(message, context) ==
    LET scored == {i \in DOMAIN IntentTable : score(IntentTable[i], message, context) > 0}
        sorted == sortedIntents(scored, message, context)
        primaryIntent == IF sorted = <<>> THEN fallbackIntent ELSE sorted[1]
    IN [primary |-> primaryIntent.intent,
        confidence |-> primaryIntent.confidence,
        alternatives |-> SubSeq(sorted, 2, Min(3, Len(sorted)))]

RECURSIVE SumOver(_, _)
SumOver(f, S) ==
    IF S = {} THEN 0
    ELSE LET x == CHOOSE y \in S : TRUE IN f[x] + SumOver(f, S \ {x})

\* extract with a count of the categories with a match in place of the count
\* of the regular expressions with a match.
extractCountingCategories(message) ==
    LET hits == UNION {entityHits(p) : p \in message}
        totalMatches == Cardinality({h.category : h \in hits})
        totalPatterns == SumOver([c \in CategoryNames |-> patternsOf(c)], CategoryNames)
    IN [found |-> [c \in CategoryNames |-> {h.text : h \in {g \in hits : g.category = c}}],
        confidence |-> IF totalPatterns > 0 THEN (totalMatches * One) \div totalPatterns ELSE 0]

\* extract: the texts found per category; the confidence is the number of
\* regular expressions with a match over the number of regular expressions.
extract(message) ==
    LET hits == UNION {entityHits(p) : p \in message}
        totalMatches == Cardinality({<<h.category, h.pattern>> : h \in hits})
        totalPatterns == SumOver([c \in CategoryNames |-> patternsOf(c)], CategoryNames)
    IN [found |-> [c \in CategoryNames |-> {h.text : h \in {g \in hits : g.category = c}}],
        confidence |-> IF totalPatterns > 0 THEN (totalMatches * One) \div totalPatterns ELSE 0]

\* calculateRelevance for a previous context whose entityStack is empty, the
\* only kind the contexts above describe.
calculateRelevance(message, previousContext) == Tenths(3)

\* ContextManager.updateContext: the relevance is computed only when the
\* previous context carries a messageHistory; it is 0.5 otherwise.
relevanceScore(message, previousContext) ==
    IF previousContext.given /\ previousContext.messageHistory
    THEN calculateRelevance(message, previousContext)
    ELSE Tenths(5)

\* x || 0.5
OrHalf(x) == IF x = 0 THEN Tenths(5) ELSE x

calculateConfidence(intentConfidence, entityConfidence, contextRelevance) ==
    (4 * OrHalf(intentConfidence) + 3 * OrHalf(entityConfidence)
        + 3 * OrHalf(contextRelevance)) \div 10

processInput(message, context) ==
    LET intent == classify(message, context)
        entities == extract(message)
        relevance == relevanceScore(message, context)
    IN [originalMessage |-> message,
        given |-> context,
        intent |-> intent,
        entities |-> entities,
        relevanceScore |-> relevance,
        confidence |-> calculateConfidence(intent.confidence, entities.confidence, relevance)]

\* No output yet.
NoOutput ==
    [originalMessage |-> {}, given |-> NoContext,
     intent |-> [primary |-> "none", confidence |-> 0, alternatives |-> <<>>],
     entities |-> [found |-> [c \in CategoryNames |-> {}], confidence |-> 0],
     relevanceScore |-> 0, confidence |-> 0]

\* A call of NLUEngine.processMessage(message, context) that has its
\* arguments and has not run yet.  The engine keeps no state between calls.
pendingInput(message, context) ==
    [NoOutput EXCEPT !.originalMessage = message, !.given = context]

\* NLUEngine.processMessage(message, context) called directly.
ProcessMessage ==
    /\ nluOutput.intent.primary = "none"
    /\ nluOutput' = processInput(nluOutput.originalMessage, nluOutput.given)
    /\ UNCHANGED <<siVars, inferVars, agentVars, cvVars, convVars, writeVars>>

(***************************************************************************)
(* Conversation manager: the conversations and the operations on them      *)
(***************************************************************************)
SessionTimeoutMinutes == 60
CleanupIntervalMinutes == 15
ContextWindow == 10

ConversationIds == {"c1", "c2"}

CallIds == 1..MaxCalls

\* getConversation(conversationId) at time t: the conversation is created
\* when there is none of that id, and its last activity becomes t.
getConversation(convs, id, t) ==
    IF id \in DOMAIN convs
    THEN [convs EXCEPT ![id].lastActivity = t]
    ELSE convs @@ (id :> [lastActivity |-> t, turns |-> <<>>])

TurnMessages == {"m1", "m2"}

\* turns.slice(-n)
lastTurns(turns, n) ==
    IF Len(turns) > n THEN SubSeq(turns, Len(turns) - n + 1, Len(turns)) ELSE turns

\* addTurn that cuts the turns to the first of them instead of the last.
addTurnKeepingOldest(convs, id, t, userMessage) ==
    LET got == getConversation(convs, id, t)
        newTurn == [turnId |-> Len(got[id].turns) + 1, userMessage |-> userMessage]
    IN [got EXCEPT ![id].turns = SubSeq(Append(@, newTurn), 1,
                                        Min(Len(@) + 1, ContextWindow))]

\* addTurn: the turn gets turnId turns.length + 1 and is pushed, and the turns
\* are cut to the last of them when they are more than the context window.
addTurn(convs, id, t, userMessage) ==
    LET got == getConversation(convs, id, t)
        newTurn == [turnId |-> Len(got[id].turns) + 1, userMessage |-> userMessage]
        pushed == Append(got[id].turns, newTurn)
    IN [got EXCEPT ![id].turns =
            IF Len(pushed) > ContextWindow THEN lastTurns(pushed, ContextWindow)
            ELSE pushed]

\* The record of the messages per conversation follows the conversations: a
\* conversation that is created has none, one that is removed loses it.
addedFor(convs) ==
    [id \in DOMAIN convs |-> IF id \in DOMAIN added THEN added[id] ELSE <<>>]

\* The test of the cleanup on one conversation, with the comparison taken at
\* the timeout itself.
expiredAtTimeout(conversation, t) ==
    t - conversation.lastActivity >= SessionTimeoutMinutes

\* The test of the cleanup on one conversation.
expired(conversation, t) ==
    t - conversation.lastActivity > SessionTimeoutMinutes

IdleCall ==
    [pc |-> "idle", conversationId |-> "none", message |-> "none", seen |-> 0,
     recorded |-> FALSE]

NoConversations ==
    /\ conversations = <<>>
    /\ clock = 0
    /\ nextSweep = CleanupIntervalMinutes
    /\ calls = [p \in CallIds |-> IdleCall]
    /\ added = <<>>

(***************************************************************************)
(* Query engine, response engine and agent orchestration                   *)
(***************************************************************************)
\* QueryEngine.initializeQueryBuilders: the intents that have a builder.
queryBuildersWithDefault ==
    {"query.entity.info", "query.relationship.explore", "query.portfolio.analyze",
     "analyze.performance", "analyze.market.trends", "compare.entities",
     "discover.opportunities", "explore.networks", "query.general"}

queryBuilders ==
    {"query.entity.info", "query.relationship.explore", "query.portfolio.analyze",
     "analyze.performance", "analyze.market.trends", "compare.entities",
     "discover.opportunities", "explore.networks"}

When(condition, name) == IF condition THEN <<name>> ELSE <<>>

\* The build method of the builder of the intent: the names of the queries of
\* the plan, in the order they are put into it.
build(intent, found) ==
    CASE intent = "query.entity.info" ->
            When(found["companies"] /= {}, "entityInfo")
            \o When(found["people"] /= {}, "peopleInfo")
      [] intent = "query.relationship.explore" ->
            IF Cardinality(found["companies"]) >= 2 THEN <<"relationships">>
            ELSE When(Cardinality(found["companies"]) = 1, "entityNetwork")
      [] intent = "query.portfolio.analyze" ->
            When(found["companies"] /= {}, "portfolio")
      [] intent = "analyze.performance" ->
            When(found["companies"] /= {}, "performance")
            \o When(found["people"] /= {}, "peoplePerformance")
      [] intent = "analyze.market.trends" ->
            When(found["sectors"] /= {}, "sectorTrends")
            \o When(found["geographies"] /= {}, "geographicTrends")
      [] intent = "compare.entities" ->
            When(Cardinality(found["companies"]) >= 2, "comparison")
      [] intent = "discover.opportunities" ->
            When(found["sectors"] /= {}, "sectorDiscovery")
            \o When(found["amounts"] /= {}, "amountDiscovery")
      [] intent = "explore.networks" ->
            When(found["people"] /= {}, "networkAnalysis")
      [] OTHER -> <<>>

\* What /([0-9,]+(?:\.[0-9]+)?)\s*([MBT]?)/i matches first in a text: the
\* number and the letter after it and after any blanks, when that is an m, a
\* b or a t of either case.
amountMatch(amountText) ==
    CASE amountText = "2" -> [number |-> 2, unit |-> ""]
      [] amountText = "$2B" -> [number |-> 2, unit |-> "B"]
      [] amountText = "2 billion" -> [number |-> 2, unit |-> "b"]

toUpperCase(unit) ==
    CASE unit = "m" -> "M" [] unit = "b" -> "B" [] unit = "t" -> "T" [] OTHER -> unit

\* DiscoveryQueryBuilder.parseAmount
parseAmount(amountText) ==
    LET match == amountMatch(amountText)
        value == match.number
        unit == toUpperCase(match.unit)
    IN CASE unit = "M" -> value * 1000000
         [] unit = "B" -> value * 1000000 * 1000
         [] unit = "T" -> value * 1000000 * 1000000
         [] OTHER -> value

\* The parameters of the amountDiscovery query of the builder of
\* discover.opportunities: minAmount is parseAmount(entities.amounts[0].text).
\* The amounts of a message of the model have one text.
buildParameters(intent, found) ==
    IF intent = "discover.opportunities" /\ found["amounts"] /= {}
    THEN [minAmount |-> parseAmount(CHOOSE text \in found["amounts"] : TRUE)]
    ELSE [minAmount |-> 0]

NoBuilderError == "No query builder found for intent"
NoConnectionError == "No database connection available (graphDb or knowledgeStore)"

\* The entries of the result of executeQueryPlan.
failedQuery == [error |-> TRUE, records |-> <<>>, executionTime |-> 0, recordCount |-> 0]

answeredQuery(rows, elapsed) ==
    [error |-> FALSE, records |-> rows, executionTime |-> elapsed, recordCount |-> Len(rows)]

Rows(n) == [i \in 1..n |-> "row"]

\* What the executor does with a named query: the graph database fails or
\* returns rows; the knowledge store has no executeCustomQuery, so that the
\* call itself throws.
storeOutcomes(executor) ==
    IF executor = "graphDb"
    THEN {[failed |-> TRUE, rows |-> <<>>]}
         \cup {[failed |-> FALSE, rows |-> Rows(n)] : n \in 0..MaxRows}
    ELSE {[failed |-> TRUE, rows |-> <<>>]}

\* calculateResponseConfidence finds a result when a value of the processed
\* results is a non-empty array or any object.  Every processor but the one
\* of analyze.performance returns an object among the values.
hasResults(intent, results) ==
    IF intent = "analyze.performance"
    THEN /\ "performance" \in DOMAIN results
         /\ ~results["performance"].error
         /\ results["performance"].recordCount > 0
    ELSE TRUE

\* Math.round(confidence * 100) / 100, in thousandths.
roundToHundredths(c) == 10 * ((c * 100 + One \div 2) \div One)

\* ResponseTemplateManager.getErrorTemplate
getErrorTemplate(error) ==
    IF error = NoBuilderError
    THEN "I understand what you're asking, but I'm not sure how to handle that type of query yet. Could you try rephrasing your question in a different way?"
    ELSE IF error = NoConnectionError
    THEN "I'm having trouble accessing the database right now. Please try again in a moment."
    ELSE "I encountered an issue while searching for that information. Please try rephrasing your question or being more specific."

\* calculateResponseConfidence without the lower limit of the reduction.
ResponseConfidenceWithoutFloor(queryResults, nluConfidence) ==
    LET confidence == OrHalf(nluConfidence)
        boosted == IF queryResults.kind = "results" /\ queryResults.found
                   THEN Min(confidence + Tenths(2), One)
                   ELSE confidence
        reduced == IF queryResults.kind = "error"
                   THEN boosted - Tenths(3)
                   ELSE boosted
    IN roundToHundredths(reduced)

\* calculateResponseConfidence: 0.2 more, at most 1, when the result has
\* no error and a result was found; 0.3 less, at least 0.1, when the result
\* has an error; rounded to hundredths and returned in thousandths.
calculateResponseConfidence(queryResults, nluConfidence) ==
    LET confidence == OrHalf(nluConfidence)
        boosted == IF queryResults.kind = "results" /\ queryResults.found
                   THEN Min(confidence + Tenths(2), One)
                   ELSE confidence
        reduced == IF queryResults.kind = "error"
                   THEN Max(boosted - Tenths(3), Tenths(1))
                   ELSE boosted
    IN roundToHundredths(reduced)

NoResponse ==
    [type |-> "none", textualAnswer |-> "", confidence |-> 0, followUpSuggestions |-> <<>>]

\* The object generateResponse builds: the text is the error template when
\* the result of the query engine is {error, fallback}.
generatedResponse(queryResults, confidence) ==
    [type |-> "answer",
     textualAnswer |-> IF queryResults.kind = "error"
                       THEN getErrorTemplate(queryResults.error) ELSE "answer",
     confidence |-> confidence,
     followUpSuggestions |-> <<"suggestions of the intent">>]

ErrorResponseAtZero ==
    [type |-> "processing_error",
     textualAnswer |-> "I apologize, but I encountered an error while processing your request. Please try rephrasing your question or contact support if the issue persists.",
     confidence |-> 0,
     followUpSuggestions |->
        <<"Try asking about a specific company or fund",
          "Rephrase your question with more specific terms",
          "Ask for help with query examples">>]

\* ResponseEngine.generateErrorResponse
generateErrorResponse ==
    [type |-> "processing_error",
     textualAnswer |-> "I apologize, but I encountered an error while processing your request. Please try rephrasing your question or contact support if the issue persists.",
     confidence |-> 100,
     followUpSuggestions |->
        <<"Try asking about a specific company or fund",
          "Rephrase your question with more specific terms",
          "Ask for help with query examples">>]

\* The object the catch of PrivateMarketsAgent.processQuery returns.
agentErrorResponse ==
    [type |-> "agent_error",
     textualAnswer |-> "I apologize, but I encountered an unexpected error while processing your request. Please try again or contact support if the issue persists.",
     confidence |-> 0,
     followUpSuggestions |->
        <<"Try rephrasing your question",
          "Ask about a specific company or fund",
          "Check if the entity names are spelled correctly">>]

\* The try/catch that receives an exception raised in a stage of the turn.
catcherWithoutQueryCatch(stage) ==
    CASE stage \in {"understanding", "conversation"} -> "agent"
      [] stage \in {"planning", "execution", "query"} -> "queryEngine"
      [] stage = "response" -> "responseEngine"

catcherWithoutAgentCatch(stage) ==
    CASE stage \in {"understanding", "conversation"} -> "none"
      [] stage \in {"planning", "execution"} -> "queryEngine"
      [] stage = "query" -> "executeQueryPlan"
      [] stage = "response" -> "responseEngine"

catcher(stage) ==
    CASE stage \in {"understanding", "conversation"} -> "agent"
      [] stage \in {"planning", "execution"} -> "queryEngine"
      [] stage = "query" -> "executeQueryPlan"
      [] stage = "response" -> "responseEngine"

NoQueryResults == [kind |-> "none", error |-> "", found |-> FALSE]

NotAString == [isString |-> FALSE, phrases |-> {}]

MessageInputs == {[isString |-> TRUE, phrases |-> m] : m \in Messages} \cup {NotAString}

\* The processQuery call in progress.  pc: idle, understanding, planning,
\* executing (executeQueryPlan is entered), queries (its loop), responding,
\* recording (the conversation update), done (a response was returned), threw
\* (an exception left processQuery).  storeLog is what the executor was asked
\* and what it did, results the object executeQueryPlan builds, raised the
\* stages in which an exception was raised.
IdleTurn ==
    [pc |-> "idle", message |-> NotAString, conversationId |-> "none",
     nlu |-> NoOutput, plan |-> <<>>, parameters |-> [minAmount |-> 0], next |-> 1,
     storeLog |-> <<>>,
     results |-> <<>>, queryResults |-> NoQueryResults, raised |-> {},
     response |-> NoResponse]

\* An exception raised in a stage goes to the catch that encloses the stage.
\* The catch of PrivateMarketsAgent.processQuery returns the degraded
\* response; the catch of QueryEngine.processQuery returns {error, fallback};
\* the catch of generateResponse returns generateErrorResponse.
raise(t, stage, message) ==
    CASE catcher(stage) = "agent" ->
            [t EXCEPT !.pc = "done", !.raised = @ \cup {stage},
                      !.response = agentErrorResponse]
      [] catcher(stage) = "queryEngine" ->
            [t EXCEPT !.pc = "responding", !.raised = @ \cup {stage},
                      !.queryResults = [kind |-> "error", error |-> message,
                                        found |-> FALSE]]
      [] catcher(stage) = "responseEngine" ->
            [t EXCEPT !.pc = "recording", !.raised = @ \cup {stage},
                      !.response = generateErrorResponse]
      [] OTHER ->
            [t EXCEPT !.pc = "threw", !.raised = @ \cup {stage}]

\* this.stats of a new agent.
NoStats == [totalQueries |-> 0, successfulQueries |-> 0]

\* updatePerformanceStats(executionTime, success)
updatePerformanceStats(s, success) ==
    [totalQueries |-> s.totalQueries + 1,
     successfulQueries |-> IF success THEN s.successfulQueries + 1
                           ELSE s.successfulQueries]

\* The stats after the step that takes the call to the state after: nothing
\* while the call goes on; step 5, with success = !queryResults.error, when it
\* returns the response of the response engine; this.stats.totalQueries++ and
\* then updatePerformanceStats(executionTime, false) in the catch.
statsAfter(s, after) ==
    IF after.pc /= "done" THEN s
    ELSE IF after.response.type = "agent_error"
         THEN updatePerformanceStats([s EXCEPT !.totalQueries = @ + 1], FALSE)
         ELSE updatePerformanceStats(s, after.queryResults.kind /= "error")

\* The context the agent hands to the understanding stage: null without a
\* conversation id, else the object of getContextForTurn, which carries
\* neither recentIntents nor messageHistory.
getContextForTurn(conversationId) ==
    IF conversationId = "none" THEN NoContext
    ELSE [given |-> TRUE, recentIntents |-> {}, messageHistory |-> FALSE]

\* PrivateMarketsAgent.processQuery(message, conversationId) is called.  The
\* locals of a call are fresh: a call made after another has returned goes
\* through the states of a first call.
ProcessQuery ==
    \E message \in MessageInputs, conversationId \in {"none", "c1", "c2"} :
        /\ turn.pc = "idle"
        /\ turn' = [IdleTurn EXCEPT !.pc = "understanding", !.message = message,
                                    !.conversationId = conversationId]
        /\ conversations' =
              IF conversationId = "none" THEN conversations
              ELSE getConversation(conversations, conversationId, clock)
        /\ added' = addedFor(conversations')
        /\ UNCHANGED <<siVars, inferVars, nluVars, config, stats, cvVars, clock, nextSweep,
                       calls, writeVars>>

\* nluEngine.processMessage: message.toLowerCase() throws on a message that
\* is not a string.
Understand ==
    /\ turn.pc = "understanding"
    /\ turn' =
        IF ~turn.message.isString
        THEN raise(turn, "understanding", "message.toLowerCase is not a function")
        ELSE [turn EXCEPT !.pc = "planning",
                !.nlu = processInput(turn.message.phrases,
                                     getContextForTurn(turn.conversationId))]
    /\ stats' = statsAfter(stats, turn')
    /\ UNCHANGED <<siVars, inferVars, nluVars, config, cvVars, convVars, writeVars>>

\* QueryEngine.createQueryPlan
CreateQueryPlan ==
    /\ turn.pc = "planning"
    /\ turn' =
        IF turn.nlu.intent.primary \notin queryBuilders
        THEN raise(turn, "planning", NoBuilderError)
        ELSE [turn EXCEPT !.pc = "executing",
                !.plan = build(turn.nlu.intent.primary, turn.nlu.entities.found),
                !.parameters = buildParameters(turn.nlu.intent.primary,
                                               turn.nlu.entities.found)]
    /\ UNCHANGED <<siVars, inferVars, nluVars, config, stats, cvVars, convVars, writeVars>>

\* QueryEngine.executeQueryPlan up to its loop: executor = graphDb || knowledgeStore.
ExecuteQueryPlan ==
    /\ turn.pc = "executing"
    /\ turn' =
        IF config.executor = "none"
        THEN raise(turn, "execution", NoConnectionError)
        ELSE [turn EXCEPT !.pc = "queries"]
    /\ UNCHANGED <<siVars, inferVars, nluVars, config, stats, cvVars, convVars, writeVars>>

\* One turn of the loop of executeQueryPlan over the named queries.
ExecuteNamedQuery ==
    /\ turn.pc = "queries"
    /\ turn.next <= Len(turn.plan)
    /\ \E outcome \in storeOutcomes(config.executor), elapsed \in 0..1 :
        LET name == turn.plan[turn.next]
            asked == [turn EXCEPT !.storeLog =
                        Append(@, [name |-> name, failed |-> outcome.failed,
                                   rows |-> outcome.rows])]
        IN turn' =
            IF outcome.failed
            THEN IF catcher("query") = "executeQueryPlan"
                 THEN [asked EXCEPT !.results = @ @@ (name :> failedQuery),
                                    !.next = @ + 1,
                                    !.raised = @ \cup {"query"}]
                 ELSE raise(asked, "query", "query failed")
            ELSE [asked EXCEPT !.results = @ @@ (name :> answeredQuery(outcome.rows, elapsed)),
                               !.next = @ + 1]
    /\ UNCHANGED <<siVars, inferVars, nluVars, config, stats, cvVars, convVars, writeVars>>

\* The loop is over: processResults, and QueryEngine.processQuery returns the
\* plan, the execution results and the processed results.
ProcessResults ==
    /\ turn.pc = "queries"
    /\ turn.next > Len(turn.plan)
    /\ turn' = [turn EXCEPT !.pc = "responding",
                  !.queryResults =
                      [kind |-> "results", error |-> "",
                       found |-> hasResults(turn.nlu.intent.primary, turn.results)]]
    /\ UNCHANGED <<siVars, inferVars, nluVars, config, stats, cvVars, convVars, writeVars>>

\* ResponseEngine.generateResponse.  fails: a part of the response throws,
\* and the catch returns generateErrorResponse.
GenerateResponse ==
    /\ turn.pc = "responding"
    /\ \E fails \in BOOLEAN :
        turn' =
            IF fails
            THEN raise(turn, "response", "response generation failed")
            ELSE [turn EXCEPT !.pc = "recording",
                    !.response = generatedResponse(turn.queryResults,
                        calculateResponseConfidence(turn.queryResults,
                                                    turn.nlu.confidence))]
    /\ UNCHANGED <<siVars, inferVars, nluVars, config, stats, cvVars, convVars, writeVars>>

\* Step 4 and the return of processQuery: conversationManager.addTurn is
\* called when there is a conversation id or conversation analytics is on,
\* with the conversation id or, without one, response.conversationId, which
\* no response has, so that getConversation generates an id; fails: it throws
\* before the turn is pushed.  The response of the response engine is
\* returned with the turn count of getConversation of the same id, which
\* without an id generates another one.
UpdateConversation ==
    /\ turn.pc = "recording"
    /\ \E fails \in BOOLEAN :
        LET called == turn.conversationId /= "none" \/ config.enableConversationAnalytics
            actualConversationId ==
                IF turn.conversationId /= "none" THEN turn.conversationId ELSE "generated1"
            countedConversationId ==
                IF turn.conversationId /= "none" THEN turn.conversationId ELSE "generated2"
        IN /\ fails => called
           /\ turn' =
                IF fails
                THEN raise(turn, "conversation", "addTurn failed")
                ELSE [turn EXCEPT !.pc = "done"]
           /\ conversations' =
                IF called /\ ~fails
                THEN getConversation(
                         addTurn(conversations, actualConversationId, clock,
                                 turn.message.phrases),
                         countedConversationId, clock)
                ELSE conversations
           /\ added' =
                IF called /\ ~fails
                THEN [addedFor(conversations') EXCEPT
                          ![actualConversationId] = Append(@, turn.message.phrases)]
                ELSE added
    /\ stats' = statsAfter(stats, turn')
    /\ UNCHANGED <<siVars, inferVars, nluVars, config, cvVars, clock, nextSweep, calls,
                   writeVars>>

(***************************************************************************)
(* Cross-validation of information (SourceIntelligence)                    *)
(*                                                                         *)
(* Confidences of this part are kept in units of 1/100000; an authority,   *)
(* kept in thousandths, is a hundred times as many of them.                *)
(***************************************************************************)
Scale == 100 * 1000

Abs(x) == IF x < 0 THEN 0 - x ELSE x

\* The information validated: the strings "Aa", "BB" and "C", each given by
\* the codes of its characters.
Informations == {<<65, 97>>, <<66, 66>>, <<67>>}

\* generateValidationKey: hash = ((hash << 5) - hash) + char over the
\* characters, then Math.abs.  For the strings above the hash stays far below
\* 2^31, so that the conversion to 32 bits leaves it as it is.
RECURSIVE hashFrom(_, _)
hashFrom(hash, chars) ==
    IF chars = <<>> THEN hash
    ELSE hashFrom((hash * 32 - hash) + Head(chars), Tail(chars))

generateValidationKey(information) == Abs(hashFrom(0, information))

CvSourceTypes == {"INDUSTRY_DATABASES", "MARKET_RUMORS"}

\* The sources argument: one to MaxSources sources, each with its type and
\* the agreement flag of the caller.
SourceLists ==
    UNION {[1..n -> [type : CvSourceTypes, agreement : BOOLEAN]] : n \in 1..MaxSources}

\* The validation crossValidateInformation computes when the cache has none.
computeValidation(sources) ==
    IF Len(sources) = 1
    THEN [confidence |-> getSourceAuthority(sources[1].type) * 100,
          sourceCount |-> 1,
          agreementLevel |-> 0,
          recommendedAuthority |-> getSourceAuthority(sources[1].type) * 100]
    ELSE LET authority == [i \in 1..Len(sources) |-> getSourceAuthority(sources[i].type)]
             totalWeight == SumSeq(authority)
             weightedAgreement ==
                 SumSeq([i \in 1..Len(sources) |->
                            IF sources[i].agreement THEN authority[i] ELSE 0])
             agreementLevel == (weightedAgreement * Scale) \div totalWeight
             high == weightedAgreement * 10 > 8 * totalWeight
         IN [confidence |->
                 IF high /\ Len(sources) >= 3
                 THEN Min((agreementLevel * 12) \div 10, 95 * 1000)
                 ELSE agreementLevel,
             sourceCount |-> Len(sources),
             agreementLevel |-> agreementLevel,
             recommendedAuthority |-> (totalWeight * 100) \div Len(sources)]

NoValidations ==
    /\ validationCache = <<>>
    /\ validationLog = <<>>

\* crossValidateInformation(information, sources): the cached validation of
\* the key when there is one, else the computed one, which is cached.
CrossValidateInformation ==
    \E information \in Informations, sources \in SourceLists :
        /\ Len(validationLog) < MaxValidations
        /\ LET validationKey == generateValidationKey(information)
               cached == validationKey \in DOMAIN validationCache
               validation == IF cached THEN validationCache[validationKey]
                             ELSE computeValidation(sources)
           IN /\ validationCache' =
                    IF cached THEN validationCache
                    ELSE validationCache @@ (validationKey :> validation)
              /\ validationLog' =
                    Append(validationLog,
                           [information |-> information, sources |-> sources,
                            returned |-> validation])
        /\ UNCHANGED <<siVars, inferVars, nluVars, agentVars, convVars, writeVars>>

(***************************************************************************)
(* Conversation manager                                                    *)
(*                                                                         *)
(* The time is observed once per cleanup interval.  A conversation is its  *)
(* last activity and its turns; a turn is its turnId and its userMessage.  *)
(* addTurn is always called with the objects of a processed query, with    *)
(* which updateContext does not throw.                                     *)
(***************************************************************************)
\* A cleanup interval passes.  The timer is punctual: no time passes a
\* cleanup that is due.
Pass ==
    /\ clock < nextSweep
    /\ clock < MaxTicks * CleanupIntervalMinutes
    /\ clock' = clock + CleanupIntervalMinutes
    /\ UNCHANGED <<siVars, inferVars, nluVars, agentVars, cvVars,
                   conversations, nextSweep, calls, added, writeVars>>

\* The callback of startCleanupInterval runs.
Sweep ==
    /\ clock = nextSweep
    /\ conversations' =
          [id \in {c \in DOMAIN conversations : ~expired(conversations[c], clock)}
              |-> conversations[id]]
    /\ added' = addedFor(conversations')
    /\ nextSweep' = nextSweep + CleanupIntervalMinutes
    /\ UNCHANGED <<siVars, inferVars, nluVars, agentVars, cvVars, clock, calls, writeVars>>

\* processQuery(message, conversationId) up to its first await: the context
\* of the conversation is read with getContextForTurn.
ReadContext(p) ==
    \E id \in ConversationIds, message \in TurnMessages :
        /\ calls[p].pc = "idle"
        /\ conversations' = getConversation(conversations, id, clock)
        /\ added' = addedFor(conversations')
        /\ calls' = [calls EXCEPT ![p] =
                        [pc |-> "awaiting", conversationId |-> id, message |-> message,
                         seen |-> Len(conversations'[id].turns), recorded |-> FALSE]]
        /\ UNCHANGED <<siVars, inferVars, nluVars, agentVars, cvVars, clock, nextSweep, writeVars>>

\* The rest of processQuery after its awaits: the turn is recorded with
\* addTurn, unless the call threw before (threw).
RecordTurn(p) ==
    \E threw \in BOOLEAN :
        /\ calls[p].pc = "awaiting"
        /\ conversations' =
              IF threw THEN conversations
              ELSE addTurn(conversations, calls[p].conversationId, clock,
                           calls[p].message)
        /\ added' =
              IF threw THEN added
              ELSE [addedFor(conversations') EXCEPT
                        ![calls[p].conversationId] = Append(@, calls[p].message)]
        /\ calls' = [calls EXCEPT ![p].pc = "done", ![p].recorded = ~threw]
        /\ UNCHANGED <<siVars, inferVars, nluVars, agentVars, cvVars, clock, nextSweep, writeVars>>

\* conversationManager.addTurn(conversationId, userMessage, agentResponse,
\* nluOutput, queryResults) is called.
AddTurn ==
    \E id \in ConversationIds, userMessage \in TurnMessages :
        /\ SumOver([c \in DOMAIN added |-> Len(added[c])], DOMAIN added) < MaxTurns
        /\ conversations' = addTurn(conversations, id, clock, userMessage)
        /\ added' = [addedFor(conversations') EXCEPT ![id] = Append(@, userMessage)]
        /\ UNCHANGED <<siVars, inferVars, nluVars, agentVars, cvVars, clock, nextSweep,
                       calls, writeVars>>

(***************************************************************************)
(* Specifications                                                          *)
(***************************************************************************)
\* What the graph holds evidence for: the patterns, and the similarity query,
\* that have matching rows.  Inference reads the evidence and never writes it.
EvidenceKinds == {Patterns[i] : i \in DOMAIN Patterns} \cup {"SIMILARITY"}

InitInfer ==
    /\ recentPerformance = initialRegistry
    /\ recorded = initialRegistry
    /\ now = 0
    /\ lastAuthority = NoAuthority
    /\ evidence \in {e \in SUBSET EvidenceKinds : Cardinality(e) <= MaxEvidence}
    /\ rels = <<>>
    /\ run = IdleRun
    /\ produced = NoCandidate
    /\ nluOutput = NoOutput
    /\ config = [executor |-> "none", enableConversationAnalytics |-> TRUE]
    /\ turn = IdleTurn
    /\ NoValidations
    /\ NoConversations
    /\ stats = NoStats
    /\ writers = NoWriters

NextInfer ==
    \/ InferAllRelationships
    \/ InferRelationshipsByPattern
    \/ PatternQueryThrows
    \/ PatternQueryReturns
    \/ ProcessCandidate
    \/ PatternReturns
    \/ SimilarityQueryThrows
    \/ SimilarityQueryReturns
    \/ ProcessSimilar
    \/ SimilarityDone
    \/ InferAllReturns
    \/ RecordInferenceOutcome
    \/ Tick

SpecInfer == InitInfer /\ [][NextInfer]_vars

InitSI ==
    /\ recentPerformance = initialRegistry
    /\ recorded = initialRegistry
    /\ now = 0
    /\ lastAuthority = NoAuthority
    /\ evidence = {}
    /\ rels = <<>>
    /\ run = IdleRun
    /\ produced = NoCandidate
    /\ nluOutput = NoOutput
    /\ config = [executor |-> "none", enableConversationAnalytics |-> TRUE]
    /\ turn = IdleTurn
    /\ NoValidations
    /\ NoConversations
    /\ stats = NoStats
    /\ writers = NoWriters

NextSI == UpdateSourcePerformance \/ Tick \/ GetSourceAuthority

SpecSI == InitSI /\ [][NextSI]_vars

Executors == {"none", "graphDb", "knowledgeStore"}

\* The agent has answered 'tell me about Blackstone' on the conversation c1:
\* the turn addTurn recorded for it.
FirstTurn == [turnId |-> 1, userMessage |-> {"tell me about", "Blackstone"}]

InitAgent ==
    /\ recentPerformance = initialRegistry
    /\ recorded = initialRegistry
    /\ now = 0
    /\ lastAuthority = NoAuthority
    /\ evidence = {}
    /\ rels = <<>>
    /\ run = IdleRun
    /\ produced = NoCandidate
    /\ nluOutput = NoOutput
    /\ config \in [executor : Executors, enableConversationAnalytics : BOOLEAN]
    /\ turn = IdleTurn
    /\ NoValidations
    /\ conversations = "c1" :> [lastActivity |-> 0, turns |-> <<FirstTurn>>]
    /\ added = "c1" :> <<FirstTurn.userMessage>>
    /\ clock = 0
    /\ nextSweep = CleanupIntervalMinutes
    /\ calls = [p \in CallIds |-> IdleCall]
    /\ stats = NoStats
    /\ writers = NoWriters

NextAgent ==
    \/ ProcessQuery
    \/ Understand
    \/ CreateQueryPlan
    \/ ExecuteQueryPlan
    \/ ExecuteNamedQuery
    \/ ProcessResults
    \/ GenerateResponse
    \/ UpdateConversation

SpecAgent == InitAgent /\ [][NextAgent]_vars

InitNLU ==
    /\ recentPerformance = initialRegistry
    /\ recorded = initialRegistry
    /\ now = 0
    /\ lastAuthority = NoAuthority
    /\ evidence = {}
    /\ rels = <<>>
    /\ run = IdleRun
    /\ produced = NoCandidate
    /\ nluOutput \in {pendingInput(m, c) : m \in Messages, c \in Contexts}
    /\ config = [executor |-> "none", enableConversationAnalytics |-> TRUE]
    /\ turn = IdleTurn
    /\ NoValidations
    /\ NoConversations
    /\ stats = NoStats
    /\ writers = NoWriters

NextNLU == ProcessMessage

SpecNLU == InitNLU /\ [][NextNLU]_vars


InitCV == InitSI

NextCV == CrossValidateInformation

SpecCV == InitCV /\ [][NextCV]_vars

InitConv == InitSI

NextConv ==
    \/ Pass
    \/ Sweep
    \/ \E p \in CallIds : ReadContext(p)
    \/ \E p \in CallIds : RecordTurn(p)

SpecConv == InitConv /\ [][NextConv]_vars

InitWindow == InitSI

NextWindow == UpdateObservedSource \/ Tick \/ GetSourceAuthority

SpecWindow == InitWindow /\ [][NextWindow]_vars

InitWriters == InitSI

NextWriters ==
    \/ \E w \in WriterIds : CheckExisting(w)
    \/ \E w \in WriterIds : WriteRelationship(w)
    \/ RecordInferenceOutcome
    \/ Tick

SpecWriters == InitWriters /\ [][NextWriters]_vars

InitTurns == InitSI

NextTurns == AddTurn

SpecTurns == InitTurns /\ [][NextTurns]_vars

(***************************************************************************)
(* Properties of the inference engine                                      *)
(***************************************************************************)
SameTriple(r, q) == r.from = q.from /\ r.to = q.to /\ r.type = q.type

\* C1: over any sequence of inference runs the stored confidence of the
\* relationship identified by (from, to, type) never decreases: every step
\* keeps each record, with a confidence at least the one it had.
C1_ConfidenceNeverDecreases ==
    [][\A i \in DOMAIN rels :
          \E j \in DOMAIN rels' :
              /\ SameTriple(rels'[j], rels[i])
              /\ rels'[j].confidence >= rels[i].confidence]_vars

\* A candidate was inferred again with a confidence below the stored one, went
\* through createInferredRelationship, and the stored confidence was kept.
C1_Witness ==
    /\ produced.persisted
    /\ \E i \in DOMAIN rels :
          /\ rels[i].type = mapPatternToRelationshipType(produced.pattern)
          /\ rels[i].from = produced.from
          /\ rels[i].to = produced.to
          /\ rels[i].confidence > produced.confidence

\* C2: in every reachable state at most one relationship record exists for
\* each (from, to, type) triple.
C2_OneRecordPerTriple ==
    \A i \in DOMAIN rels, j \in DOMAIN rels :
        SameTriple(rels[i], rels[j]) => i = j

\* A pair that already had a relationship of the type was inferred again from
\* the other side, went through createInferredRelationship, and the store
\* still holds the one record.
C2_Witness ==
    /\ produced.persisted
    /\ Len(rels) = 1
    /\ rels[1].type = mapPatternToRelationshipType(produced.pattern)
    /\ rels[1].from = produced.to
    /\ rels[1].to = produced.from

\* C19: no step of an inference run changes what the graph holds of its
\* entities, and none removes a relationship: every record stays where it is,
\* between the same two entities and of the same type, and every record
\* joins two entities of the graph.
C19_InferenceOnlyAddsOrUpdates ==
    [][/\ evidence' = evidence
       /\ Len(rels') >= Len(rels)
       /\ \A i \in DOMAIN rels :
             /\ rels'[i].from = rels[i].from
             /\ rels'[i].to = rels[i].to
             /\ rels'[i].type = rels[i].type
       /\ \A i \in DOMAIN rels' :
             rels'[i].from \in Entities /\ rels'[i].to \in Entities]_vars

\* A pair whose relationship was stored from the other side has been inferred
\* again with a confidence above the one of a fresh registry, and the record
\* of the store, still in its direction, has that confidence.
C19_Witness ==
    /\ produced.persisted
    /\ Len(rels) = 1
    /\ rels[1].from = produced.to
    /\ rels[1].to = produced.from
    /\ rels[1].confidence = produced.confidence
    /\ rels[1].confidence > baseAuthority("AI_INFERENCE")

\* C23: when the two runs have the same candidate (from, to, type) and both
\* made the query for an existing relationship before either wrote, then
\* after both have written the store holds exactly one relationship of that
\* triple, and its confidence is the larger of the two computed confidences.
C23_RaceKeepsLarger ==
    (/\ writers[1].pc = "written" /\ writers[2].pc = "written"
     /\ ~writers[1].found /\ ~writers[2].found
     /\ writers[1].from = writers[2].from
     /\ writers[1].to = writers[2].to
     /\ writers[1].type = writers[2].type)
    => LET same == {i \in DOMAIN rels : /\ rels[i].from = writers[1].from
                                        /\ rels[i].to = writers[1].to
                                        /\ rels[i].type = writers[1].type}
       IN /\ Cardinality(same) = 1
          /\ \A i \in same :
                rels[i].confidence = Max(writers[1].confidence, writers[2].confidence)

\* C9: the relationship produced for a CO_INVESTMENT row with overlap count n
\* has confidence min(0.95, 0.5 + 0.1 n), and is persisted whenever that value
\* reaches the pattern's threshold 0.7 (unless the store itself fails).
C9_CoInvestmentConfidence ==
    produced.pattern = "CO_INVESTMENT" =>
        /\ produced.confidence = Min(950, 500 + 100 * produced.count)
        /\ (Min(950, 500 + 100 * produced.count) >= 700 /\ ~produced.threw)
              => produced.persisted

\* C10: a full inferAllRelationships run is never aborted by the failure of
\* one pattern: it does not end by throwing.
C10_FullRunNotAborted ==
    run.mode = "all" => run.pc /= "threw"

\* C28: in the Summary inferAllRelationships returns, successfulInferences
\* and failedInferences add up to totalInferences.
C28_SummaryAddsUp ==
    (run.mode = "all" /\ run.pc = "returned") =>
        run.successfulInferences + run.failedInferences = run.totalInferences

(***************************************************************************)
(* Properties of cross-validation                                          *)
(***************************************************************************)
\* The confidence as stated: the authority of a single source; for several
\* sources the authority of the agreeing ones over the authority of all, and
\* 1.2 times that, at most 0.95, when it is above 0.8 and the sources are
\* three or more.
statedConfidence(sources) ==
    IF Len(sources) = 1 THEN getSourceAuthority(sources[1].type) * 100
    ELSE LET all == SumSeq([i \in 1..Len(sources) |->
                               getSourceAuthority(sources[i].type)])
             agreeing == SumSeq([i \in 1..Len(sources) |->
                                    IF sources[i].agreement
                                    THEN getSourceAuthority(sources[i].type) ELSE 0])
             ratio == (agreeing * Scale) \div all
         IN IF agreeing * 10 > 8 * all /\ Len(sources) >= 3
            THEN Min((ratio * 12) \div 10, 95 * 1000)
            ELSE ratio

\* C16: every call that validates an information for the first time returns
\* the confidence as stated.
C16_FirstValidationConfidence ==
    \A i \in DOMAIN validationLog :
        (\A j \in 1..(i - 1) :
            validationLog[j].information /= validationLog[i].information)
        => validationLog[i].returned.confidence
              = statedConfidence(validationLog[i].sources)

\* C29: what crossValidateInformation returns is determined by the
\* information and the sources of the call alone: two calls with the same
\* information and sources return the same confidence whatever was validated
\* before, and an information validated again with other sources gets the
\* confidence computed from the sources of that call.
C29_ResultOfTheCallAlone ==
    /\ \A i, j \in DOMAIN validationLog :
          (/\ validationLog[i].information = validationLog[j].information
           /\ validationLog[i].sources = validationLog[j].sources)
          => validationLog[i].returned.confidence = validationLog[j].returned.confidence
    /\ \A i \in DOMAIN validationLog :
          validationLog[i].returned.confidence
              = computeValidation(validationLog[i].sources).confidence

(***************************************************************************)
(* Properties of the conversation manager                                  *)
(***************************************************************************)
\* C17: a step in which the cleanup runs removes the conversations whose last
\* activity is more than 60 minutes ago, removes no other and changes none;
\* no other step removes a conversation.
C17_SweepRemovesExactlyExpired ==
    [][/\ nextSweep' /= nextSweep =>
            /\ DOMAIN conversations' =
                  {c \in DOMAIN conversations :
                      clock - conversations[c].lastActivity <= SessionTimeoutMinutes}
            /\ \A c \in DOMAIN conversations' : conversations'[c] = conversations[c]
       /\ nextSweep' = nextSweep => DOMAIN conversations \subseteq DOMAIN conversations'
      ]_vars

\* The cleanup has just run: the conversation c1, which had a turn recorded,
\* is removed, and c2, whose last activity is exactly 60 minutes ago, is kept.
C17_Witness ==
    /\ nextSweep > clock
    /\ \E p \in CallIds :
          /\ calls[p].pc = "done"
          /\ calls[p].recorded
          /\ calls[p].conversationId = "c1"
    /\ "c1" \notin DOMAIN conversations
    /\ "c2" \in DOMAIN conversations
    /\ clock - conversations["c2"].lastActivity = SessionTimeoutMinutes

\* C18: two calls on the same conversation never have both read its context
\* without one of them having recorded its turn.
C18_TurnsSerialized ==
    \A p, q \in CallIds :
        (/\ p /= q
         /\ calls[p].pc = "awaiting"
         /\ calls[q].pc = "awaiting")
        => calls[p].conversationId /= calls[q].conversationId

\* C22: whatever addTurn calls were made on a conversation, its turns are at
\* most 10, and they are the most recently added ones in the order they were
\* added: the last min(n, 10) of the n messages addTurn was called with.
C22_TurnsAreTheMostRecent ==
    \A id \in DOMAIN conversations :
        LET turns == conversations[id].turns
            log == added[id]
        IN /\ Len(turns) <= 10
           /\ Len(turns) = Min(Len(log), 10)
           /\ \A i \in 1..Len(turns) :
                 turns[i].userMessage = log[Len(log) - Len(turns) + i]

\* addTurn was called twelve times on c1, with a first message that differs
\* from the third: the ten turns kept begin with the third message.
C22_Witness ==
    /\ "c1" \in DOMAIN conversations
    /\ Len(added["c1"]) = 12
    /\ added["c1"][1] /= added["c1"][3]
    /\ Len(conversations["c1"].turns) = 10
    /\ conversations["c1"].turns[1].userMessage = added["c1"][3]

\* C26: within a conversation the turnIds of the turns kept increase strictly
\* in the order of the turns, so that no two turns share a turnId.
C26_TurnIdsIncrease ==
    \A id \in DOMAIN conversations :
        \A i, j \in DOMAIN conversations[id].turns :
            i < j => conversations[id].turns[i].turnId < conversations[id].turns[j].turnId

(***************************************************************************)
(* Properties of the query engine and the agent                            *)
(***************************************************************************)
\* executeQueryPlan was entered with an executor and is over, whether its
\* loop ran to the end or was left early.
PlanExecuted ==
    \/ turn.pc = "queries" /\ turn.next > Len(turn.plan)
    \/ /\ turn.pc \in {"responding", "recording", "done", "threw"}
       /\ turn.raised \cap {"understanding", "planning", "execution"} = {}

\* C3: whatever named queries of the plan fail in the store, executeQueryPlan
\* asks the store for every named query, in the order of the plan, and its
\* result has an entry for every name: {error, executionTime: 0,
\* recordCount: 0} for a name that failed, the rows and their number for a
\* name that did not.
C3_EveryNamedQueryAnswered ==
    PlanExecuted =>
        /\ Len(turn.storeLog) = Len(turn.plan)
        /\ DOMAIN turn.results = {turn.plan[i] : i \in DOMAIN turn.plan}
        /\ \A i \in DOMAIN turn.plan :
              /\ turn.storeLog[i].name = turn.plan[i]
              /\ IF turn.storeLog[i].failed
                 THEN /\ turn.results[turn.plan[i]].error
                      /\ turn.results[turn.plan[i]].executionTime = 0
                      /\ turn.results[turn.plan[i]].recordCount = 0
                 ELSE /\ ~turn.results[turn.plan[i]].error
                      /\ turn.results[turn.plan[i]].records = turn.storeLog[i].rows
                      /\ turn.results[turn.plan[i]].recordCount
                            = Len(turn.storeLog[i].rows)

\* A plan of two named queries whose first query failed in the store and
\* whose second returned a row.
C3_Witness ==
    /\ PlanExecuted
    /\ Len(turn.plan) = 2
    /\ turn.storeLog[1].failed
    /\ ~turn.storeLog[2].failed
    /\ Len(turn.storeLog[2].rows) > 0

\* C4: processQuery never lets an exception out: whichever stage fails, the
\* call ends by returning a response object.
C4_AlwaysAResponse ==
    /\ turn.pc /= "threw"
    /\ turn.pc = "done" => turn.response /= NoResponse

\* A call whose understanding stage threw has returned.
C4_Witness ==
    /\ turn.pc = "done"
    /\ "understanding" \in turn.raised
    /\ turn.response /= NoResponse

\* C5 as stated: whenever an exception was raised at any stage of the turn,
\* the response returned is the degraded response: the apology of the agent,
\* confidence exactly 0 and its generic follow-up suggestions.
C5_AnyExceptionDegrades ==
    (turn.pc = "done" /\ turn.raised /= {}) =>
        /\ turn.response.type = "agent_error"
        /\ turn.response.confidence = 0

\* C5, amended: an exception of the understanding stage or of the conversation
\* update gives the degraded response of the agent (confidence 0).  Without
\* one of these, an exception of response generation gives the error response
\* of the response engine: its own apology, confidence 0.1, its own generic
\* suggestions; and an exception of planning or of execution as a whole alone
\* gives a generated response whose text is the error template and whose
\* confidence is the understanding confidence less 0.3, at least 0.1, never 0.
\* The failure of named queries alone leaves the response an answer.
C5_ErrorResponses ==
    turn.pc = "done" =>
        /\ turn.raised \cap {"understanding", "conversation"} /= {} =>
              /\ turn.response.type = "agent_error"
              /\ turn.response.confidence = 0
              /\ turn.response.textualAnswer = "I apologize, but I encountered an unexpected error while processing your request. Please try again or contact support if the issue persists."
              /\ Len(turn.response.followUpSuggestions) = 3
        /\ (/\ turn.raised \cap {"understanding", "conversation"} = {}
            /\ "response" \in turn.raised) =>
              /\ turn.response.type = "processing_error"
              /\ turn.response.confidence = 100
              /\ turn.response.textualAnswer = "I apologize, but I encountered an error while processing your request. Please try rephrasing your question or contact support if the issue persists."
              /\ Len(turn.response.followUpSuggestions) = 3
        /\ (/\ turn.raised \cap {"understanding", "conversation", "response"} = {}
            /\ turn.raised \cap {"planning", "execution"} /= {}) =>
              /\ turn.response.type = "answer"
              /\ turn.response.textualAnswer \in
                    {"I understand what you're asking, but I'm not sure how to handle that type of query yet. Could you try rephrasing your question in a different way?",
                     "I'm having trouble accessing the database right now. Please try again in a moment."}
              /\ turn.response.confidence
                    = 10 * ((Max(turn.nlu.confidence - Tenths(3), Tenths(1)) * 100
                                + One \div 2) \div One)
              /\ turn.response.confidence >= 100
        /\ (turn.raised \subseteq {"query"} /\ turn.queryResults.kind = "results") =>
              /\ turn.response.type = "answer"
              /\ turn.response.textualAnswer = "answer"

\* A turn whose response generation failed after its planning had failed has
\* returned the error response of the response engine, with confidence 0.1.
C5_Witness ==
    /\ turn.pc = "done"
    /\ turn.raised = {"planning", "response"}
    /\ turn.response.type = "processing_error"
    /\ turn.response.confidence = 100

\* C11: every response that comes from the response engine, generated or its
\* error response, has a confidence between 0.1 and 1.0.
C11_ResponseConfidenceInRange ==
    (turn.pc \in {"recording", "done"} /\ turn.response.type \in {"answer", "processing_error"}) =>
        /\ turn.response.confidence >= 100
        /\ turn.response.confidence <= 1000

\* A generated response for an error of the query engine, whose confidence
\* less 0.3 would fall below 0.1, and which has confidence 0.1.
C11_Witness ==
    /\ turn.pc = "done"
    /\ turn.response.type = "answer"
    /\ turn.queryResults.kind = "error"
    /\ turn.nlu.confidence < Tenths(4)
    /\ turn.response.confidence = 100

\* The eight intents that have a query builder.
EightIntents ==
    {"query.entity.info", "query.relationship.explore", "query.portfolio.analyze",
     "analyze.performance", "analyze.market.trends", "compare.entities",
     "discover.opportunities", "explore.networks"}

\* QueryEngine.processQuery has returned to the agent.
QueryEngineReturned ==
    /\ turn.pc \in {"responding", "recording", "done"}
    /\ "understanding" \notin turn.raised

\* C6: when the primary intent is none of the eight intents with a builder, or
\* no executor is configured, the store is asked for no named query and the
\* result of the query engine carries the error message and no execution
\* results.
C6_ConfigurationErrorIsFatal ==
    (/\ QueryEngineReturned
     /\ \/ turn.nlu.intent.primary \notin EightIntents
        \/ config.executor = "none") =>
        /\ turn.storeLog = <<>>
        /\ DOMAIN turn.results = {}
        /\ turn.queryResults.kind = "error"
        /\ turn.queryResults.error =
              IF turn.nlu.intent.primary \notin EightIntents
              THEN NoBuilderError ELSE NoConnectionError

\* A message classified as the fallback intent query.general, with a graph
\* database configured: the query engine has returned the error.
C6_Witness ==
    /\ QueryEngineReturned
    /\ turn.nlu.intent.primary = "query.general"
    /\ config.executor = "graphDb"
    /\ turn.queryResults.error = NoBuilderError

\* C20: when the named queries of the turn were all answered without error
\* and with no row, the confidence of the response is the confidence of the
\* understanding stage rounded to hundredths, without the 0.2.
C20_NoBoostWithoutRows ==
    (/\ turn.pc = "done"
     /\ turn.raised = {}
     /\ turn.response.type = "answer"
     /\ turn.plan /= <<>>
     /\ \A i \in DOMAIN turn.storeLog :
           ~turn.storeLog[i].failed /\ turn.storeLog[i].rows = <<>>)
    => turn.response.confidence = roundToHundredths(turn.nlu.confidence)

\* The suffix or the word of the magnitude of an amount of a message.
statedAmount(phrase) ==
    CASE phrase = "$2B" -> 2 * 1000000 * 1000
      [] phrase = "2 billion" -> 2 * 1000000 * 1000

\* C30: for a discovery query whose text has an amount with a magnitude
\* suffix ("$2B", "2 billion"), the minAmount parameter bound in the
\* amountDiscovery query is the number scaled by that suffix, 2,000,000,000.
C30_MinAmountScaledBySuffix ==
    (/\ turn.pc \in {"executing", "queries", "responding", "recording", "done"}
     /\ turn.nlu.intent.primary = "discover.opportunities"
     /\ "amountDiscovery" \in {turn.plan[i] : i \in DOMAIN turn.plan})
    => \E phrase \in turn.message.phrases \cap {"$2B", "2 billion"} :
            turn.parameters.minAmount = statedAmount(phrase)

\* The relevance of a message to a first turn whose only entity is
\* Blackstone and that has no topic: 0.3 when the message names it.
relevanceToFirstTurn(message) ==
    IF message \cap {"Blackstone", "Blackstone Group"} /= {} THEN Tenths(3) ELSE 0

\* C25: when processQuery handles a second turn on the conversation of a first
\* one, the understanding stage receives the first turn's state: the context
\* it is given carries the message history, lists the first turn's intent
\* among the recent ones, and the relevance of the second turn is computed
\* against the first turn's entities.
C25_SecondTurnSeesTheFirst ==
    (/\ turn.pc \in {"planning", "executing", "queries", "responding", "recording", "done"}
     /\ turn.conversationId = "c1"
     /\ FirstTurn \in {conversations["c1"].turns[i] : i \in DOMAIN conversations["c1"].turns})
    => /\ turn.nlu.given.messageHistory
       /\ classify(FirstTurn.userMessage, NoContext).primary \in turn.nlu.given.recentIntents
       /\ turn.nlu.relevanceScore = relevanceToFirstTurn(turn.message.phrases)

\* C27: stats.totalQueries is the number of processQuery calls that have
\* returned, by the success path or by the catch, and stats.successfulQueries
\* never exceeds it.  A behaviour has one call.
C27_TotalQueriesCountsCalls ==
    /\ stats.totalQueries = IF turn.pc = "done" THEN 1 ELSE 0
    /\ stats.successfulQueries <= stats.totalQueries

\* The execution results with every named query that failed answered with
\* the given rows instead.
resultsWithoutFailure(results, rows) ==
    [name \in DOMAIN results |->
        IF results[name].error THEN answeredQuery(rows, 0) ELSE results[name]]

\* C21: when a named query of the plan failed in the store while another was
\* answered, the turn returns an answer whose confidence is lower than the
\* confidence the same turn has when that query is answered, whatever rows
\* it is answered with.
C21_FailedQueryLowersConfidence ==
    (/\ turn.pc = "done"
     /\ turn.raised = {"query"}
     /\ \E i \in DOMAIN turn.storeLog : ~turn.storeLog[i].failed)
    => /\ turn.response.type = "answer"
       /\ \A n \in 0..MaxRows :
             turn.response.confidence <
                calculateResponseConfidence(
                    [kind |-> "results", error |-> "",
                     found |-> hasResults(turn.nlu.intent.primary,
                                          resultsWithoutFailure(turn.results, Rows(n)))],
                    turn.nlu.confidence)

(***************************************************************************)
(* Properties of the understanding stage                                   *)
(***************************************************************************)
\* The message matches no intent pattern, contains no keyword and matches no
\* entity pattern.
NoMatches(message) ==
    \A p \in message : patternHits(p) = {} /\ keywordHits(p) = {} /\ entityHits(p) = {}

Classified == nluOutput.intent.primary /= "none"

FallbackResult ==
    /\ nluOutput.intent.primary = "query.general"
    /\ nluOutput.intent.confidence = Tenths(3)
    /\ nluOutput.intent.alternatives = <<>>
    /\ \A c \in CategoryNames : nluOutput.entities.found[c] = {}
    /\ nluOutput.entities.confidence = 0

containedKeywords(phrase) ==
    IF phrase = "IRR" THEN {<<"analyze.performance", "IRR">>} ELSE keywordHits(phrase)

\* 3 per matching regular expression, 1 per contained keyword, 1 for an intent
\* among the recent intents of the context.
statedScore(i, message, context) ==
    3 * Cardinality({h \in UNION {patternHits(p) : p \in message} : h[1] = IntentTable[i]})
    + Cardinality({h \in UNION {containedKeywords(p) : p \in message} : h[1] = IntentTable[i]})
    + (IF context.given /\ IntentTable[i] \in context.recentIntents THEN 1 ELSE 0)

\* The place of intent i among the intents with a score: one more than the
\* number of intents with a higher score, or the same score and an earlier
\* place in the table.
statedRank(i, message, context) ==
    1 + Cardinality({j \in DOMAIN IntentTable :
            \/ statedScore(j, message, context) > statedScore(i, message, context)
            \/ /\ statedScore(j, message, context) = statedScore(i, message, context)
               /\ j < i})

\* C13: the primary intent is the first of that ranking, with confidence
\* min(score / 10, 1), and the alternatives are the second and the third, as
\* far as they exist.
C13_RankedByScore ==
    Classified =>
        LET message == nluOutput.originalMessage
            context == nluOutput.given
            scored == {i \in DOMAIN IntentTable : statedScore(i, message, context) > 0}
            ranked == [k \in 1..Cardinality(scored) |->
                         CHOOSE i \in scored : statedRank(i, message, context) = k]
            entry(k) == [intent |-> IntentTable[ranked[k]],
                         confidence |-> Min(Tenths(statedScore(ranked[k], message, context)), One)]
        IN scored /= {} =>
              /\ nluOutput.intent.primary = entry(1).intent
              /\ nluOutput.intent.confidence = entry(1).confidence
              /\ nluOutput.intent.alternatives =
                    [k \in 1..Min(2, Cardinality(scored) - 1) |-> entry(k + 1)]

\* The number of regular expressions extract tries: all of every category.
PatternsAttempted == 4 + 2 + 2 + 3 + 1 + 1 + 3

\* C14 as stated: the confidence of the extraction is the number of categories
\* with at least one match over the number of regular expressions tried.
C14_CategoryDensity ==
    Classified =>
        nluOutput.entities.confidence =
            (Cardinality({c \in CategoryNames : nluOutput.entities.found[c] /= {}}) * One)
                \div PatternsAttempted

\* C14, amended: the confidence of the extraction is the number of regular
\* expressions with at least one match over the number of regular expressions
\* tried; a category counts once for each of its expressions that matches.
C14_PatternDensity ==
    Classified =>
        nluOutput.entities.confidence =
            (Cardinality({<<h.category, h.pattern>> :
                            h \in UNION {entityHits(p) : p \in nluOutput.originalMessage}})
                * One) \div PatternsAttempted

\* A text that three regular expressions of the category companies match:
\* the confidence is 3/16.
C14_Witness ==
    /\ Classified
    /\ nluOutput.originalMessage = {"Blackstone Group"}
    /\ nluOutput.entities.found["companies"] = {"Blackstone", "Blackstone Group"}
    /\ nluOutput.entities.confidence = 3 * 1000

\* C12: the confidence of the understanding stage is 0.4 times the intent
\* confidence plus 0.3 times the extraction confidence plus 0.3 times the
\* context relevance, also when the extraction confidence is 0.
C12_WeightedConfidence ==
    Classified =>
        nluOutput.confidence =
            (4 * nluOutput.intent.confidence + 3 * nluOutput.entities.confidence
                + 3 * nluOutput.relevanceScore) \div 10

\* C15: when the understanding stage is called without a prior context, the
\* context it builds has relevance score 0.3.
C15_FirstTurnRelevance ==
    (Classified /\ ~nluOutput.given.given) => nluOutput.relevanceScore = Tenths(3)

(***************************************************************************)
(* Properties of source intelligence                                       *)
(***************************************************************************)
\* C8: every value getSourceAuthority returns, for a registered or an
\* unknown source type, after any recorded outcomes and any elapsed time,
\* lies in the closed interval [0.1, 0.98].
C8_AuthorityInRange ==
    lastAuthority /= NoAuthority =>
        /\ lastAuthority.value >= 100
        /\ lastAuthority.value <= 980

\* A decaying source type whose blended authority has fallen below the floor
\* (and is returned as the floor), after recorded outcomes.
C8_Witness ==
    /\ lastAuthority /= NoAuthority
    /\ lastAuthority.type = "MARKET_RUMORS"
    /\ recentPerformance["MARKET_RUMORS"] /= <<>>
    /\ now > 0
    /\ lastAuthority.value = AuthorityFloor

\* The last ten of the outcomes recorded, in the order of arrival.
lastOutcomes(log) ==
    IF Len(log) > 10 THEN SubSeq(log, Len(log) - 9, Len(log)) ELSE log

\* C24: whatever outcomes were recorded for a registered source type, its
\* window holds at most 10 of them, the last ones recorded in the order of
\* arrival; and the authority getSourceAuthority returns is 0.7 times the base
\* authority plus 0.3 times the mean of those outcomes (the base authority
\* when there is none), decayed for the categories that decay, and clamped.
C24_WindowIsTheLastTen ==
    /\ \A t \in RegisteredTypes :
          /\ Len(recentPerformance[t]) <= 10
          /\ recentPerformance[t] = lastOutcomes(recorded[t])
    /\ (lastAuthority /= NoAuthority /\ lastAuthority.type \in RegisteredTypes) =>
          LET t == lastAuthority.type
              window == lastOutcomes(recorded[t])
              blended == IF window = <<>> THEN baseAuthority(t)
                         ELSE (7 * baseAuthority(t) * Len(window) + 3 * SumSeq(window))
                                  \div (10 * Len(window))
              decayed == IF category(t) \in {"official", "regulatory"} THEN blended
                         ELSE blended \div Pow2(now)
          IN lastAuthority.value = Min(Max(decayed, 100), 980)

\* Twelve outcomes were recorded for the observed type, a success first and
\* failures from the third on: the window holds the ten failures, and the
\* authority returned is 0.7 times the base authority.
C24_Witness ==
    /\ Len(recorded[ObservedType]) = 12
    /\ recorded[ObservedType][1] = 1000
    /\ \A i \in 3..12 : recorded[ObservedType][i] = 0
    /\ Len(recentPerformance[ObservedType]) = 10
    /\ now = 0
    /\ lastAuthority.type = ObservedType
    /\ lastAuthority.value = (7 * baseAuthority(ObservedType)) \div 10

=============================================================================
